---- MODULE Spec2Model ----
(***************************************************************************)
(* A model of the Prusa-Link-Web file browser (files page), its preview    *)
(* lazy queue and the direct upload widget.                                 *)
(*                                                                         *)
(* JavaScript strings that the code takes apart (paths) are sequences of   *)
(* tokens: the token "/" is the separator, every other token is a chunk    *)
(* without a slash.  A JavaScript object is a record, a missing property   *)
(* is a field that is not in the record's DOMAIN, null and false are the   *)
(* strings "null" and "false".                                             *)
(***************************************************************************)
EXTENDS Integers, Sequences, FiniteSets, Bags, TLC

VARIABLES
  printerType,   \* process.env.PRINTER_TYPE of the build: "fdm" or "sla"
  metadata,      \* the file context object (origin, current_path, storages, files, eTag, sort)
  filePolls,     \* getJson(/api/files/path/...) requests in flight, a bag
  storagePolls,  \* getJson(/api/v1/storage) requests in flight
  dom,           \* the part of the page the handlers read: #files, the folder nodes, the up node
  last,          \* the handler that ran last, what it was given and what it called
  hist,          \* history: the ETag of the file response applied last ("null": none yet)
                 \* and whether a file request has failed ("no", "poll", "forced")
  sent,          \* how many file requests were sent so far
  previewLazyQueue,  \* the targets (img nodes) waiting for their preview, the one in flight first
  images,        \* the observed img nodes, the getImage requests in flight and their log
  upload         \* the direct upload widget: isUploading, progress, data-state, requests

browserVars == <<printerType, metadata, filePolls, storagePolls, dom, hist, sent>>
queueVars == <<previewLazyQueue, images>>

vars == <<browserVars, last, queueVars, upload>>

----------------------------------------------------------------------------
(* Bounds of the model *)

\* file-list requests sent in a run
MaxPolls == 2
\* storage requests in flight at once
MaxStoragePolls == 1
\* folders below the storage root that navigation enters
MaxDepth == 1

\* ETags the file-listing endpoint answers with
ETags == {"e1", "e2"}
\* the storage types the printer of the model reports (entry.type): two of the three of
\* the source's STORAGE_TYPES
ReportedTypes == <<"LOCAL", "USB">>
StorageTypes == {ReportedTypes[i] : i \in 1..Len(ReportedTypes)}

----------------------------------------------------------------------------
(* Strings *)


\* the collation order of the chunks that occur in names
Alphabet == <<"a", "b", "f", "g", "gcodes", "usb", "LOCAL", "USB">>
Rank(c) == IF c = "/" THEN 0 ELSE CHOOSE i \in 1..Len(Alphabet) : Alphabet[i] = c

RECURSIVE localeCompare(_, _)
\* String.prototype.localeCompare: negative, zero or positive
localeCompare(s1, s2) ==
  IF s1 = <<>> /\ s2 = <<>> THEN 0
  ELSE IF s1 = <<>> THEN -1
  ELSE IF s2 = <<>> THEN 1
  ELSE IF Rank(Head(s1)) < Rank(Head(s2)) THEN -1
  ELSE IF Rank(Head(s1)) > Rank(Head(s2)) THEN 1
  ELSE localeCompare(Tail(s1), Tail(s2))

\* s.replace("/", ""): the first "/" is removed, if there is one
replaceSlash(s) ==
  IF \E i \in 1..Len(s) : s[i] = "/"
  THEN LET k == CHOOSE i \in 1..Len(s) : s[i] = "/" /\ \A j \in 1..(i-1) : s[j] # "/"
       IN  SubSeq(s, 1, k - 1) \o SubSeq(s, k + 1, Len(s))
  ELSE s

RECURSIVE split(_)
\* s.split("/"): the pieces between the separators, empty pieces included
split(s) ==
  IF \E i \in 1..Len(s) : s[i] = "/"
  THEN LET k == CHOOSE i \in 1..Len(s) : s[i] = "/" /\ \A j \in 1..(i-1) : s[j] # "/"
       IN  <<SubSeq(s, 1, k - 1)>> \o split(SubSeq(s, k + 1, Len(s)))
  ELSE <<s>>

\* .filter((i) => i): the empty strings are dropped
filterNonEmpty(segs) == SelectSeq(segs, LAMBDA x : x # <<>>)

RECURSIVE join(_)
\* segs.join("/")
join(segs) ==
  IF segs = <<>> THEN <<>>
  ELSE IF Len(segs) = 1 THEN segs[1]
  ELSE segs[1] \o <<"/">> \o join(Tail(segs))

\* array.slice(1)
slice1(s) == SubSeq(s, 2, Len(s))

----------------------------------------------------------------------------
(* sortFiles *)

\* f.date || 0, f.size || 0: a missing or zero property gives 0
orZero(f, field) == IF field \in DOMAIN f THEN f[field] ELSE 0

\* a comparator that does not look at the type
compareFilesByFieldOnly(f1, f2, sort) ==
  LET order == IF sort.order = "desc" THEN -1 ELSE 1
  IN  CASE sort.field = "date" -> order * (orZero(f1, "date") - orZero(f2, "date"))
        [] sort.field = "size" -> order * (orZero(f1, "size") - orZero(f2, "size"))
        [] OTHER -> order * localeCompare(f1.display, f2.display)

\* compareFiles: folders first, then the current field in the current order
compareFiles(f1, f2, sort) ==
  IF f1.type = "folder" /\ f2.type # "folder" THEN -1
  ELSE IF f1.type # "folder" /\ f2.type = "folder" THEN 1
  ELSE LET order == IF sort.order = "desc" THEN -1 ELSE 1
       IN  CASE sort.field = "date" -> order * (orZero(f1, "date") - orZero(f2, "date"))
             [] sort.field = "size" -> order * (orZero(f1, "size") - orZero(f2, "size"))
             [] OTHER -> order * localeCompare(f1.display, f2.display)

\* one step of a stable sort: x goes before the first element it is smaller than
insertSorted(sorted, x, sort) ==
  LET before == {i \in 1..Len(sorted) : compareFiles(x, sorted[i], sort) < 0}
      k == IF before = {} THEN Len(sorted) + 1
           ELSE CHOOSE i \in before : \A j \in before : i <= j
  IN  SubSeq(sorted, 1, k - 1) \o <<x>> \o SubSeq(sorted, k, Len(sorted))

RECURSIVE sortPrefix(_, _, _)
sortPrefix(files, n, sort) ==
  IF n = 0 THEN <<>>
  ELSE insertSorted(sortPrefix(files, n - 1, sort), files[n], sort)

\* files.sort(compareFiles): Array.prototype.sort is stable (ES2019)
sortFiles(files, sort) == sortPrefix(files, Len(files), sort)

----------------------------------------------------------------------------
(* The printer's answers *)

Null == "null"
False == "false"

\* the name of a storage (entry.name), the root folder of its paths
StorageName(t) == IF t = "LOCAL" THEN <<"gcodes">> ELSE <<"usb">>

\* a storage entry as updateStorage stores it
StorageData(t, avail) == [type |-> t, name |-> StorageName(t), available |-> avail]

\* the storage lists a response can carry: distinct types, in any order
StorageLists ==
  {<<>>}
  \cup {<<StorageData(t, a)>> : t \in StorageTypes, a \in BOOLEAN}
  \cup {l \in {<<StorageData(t1, a1), StorageData(t2, a2)>> :
                  t1 \in StorageTypes, t2 \in StorageTypes, a1 \in BOOLEAN, a2 \in BOOLEAN} :
            l[1].type # l[2].type}

TagDate(tag) == IF tag = "e1" THEN 1 ELSE IF tag = "e2" THEN 2 ELSE 3

\* the listing of the folder at url in the version the ETag names:
\* two files and a folder, as the printer sends them
Listing(url, tag) ==
  << [name |-> <<"f">>, display |-> <<"f">>, type |-> "machinecode",
      date |-> TagDate(tag), size |-> 2, path |-> url \o <<"/", "f">>],
     [name |-> <<"a">>, display |-> <<"a">>, type |-> "folder", path |-> <<"/", "a">>],
     [name |-> <<"g">>, display |-> <<"g">>, type |-> "machinecode",
      date |-> 3 - TagDate(tag), size |-> 1, path |-> url \o <<"/", "g">>] >>

----------------------------------------------------------------------------
(* The file context and the functions over it.  A world w is what a       *)
(* handler reads and writes: [m: metadata, polls: the file requests in     *)
(* flight, dom, calls: the functions the handler has called so far].       *)

SORT_FIELDS == <<"name", "date", "size">>

metadata0 ==
  [origin |-> Null, current_path |-> <<>>, storages |-> <<>>, files |-> <<>>,
   eTag |-> Null, sort |-> [field |-> "date", order |-> "desc"]]

\* origin in metadata.storages; the storages keep the order their keys were added in
inStorages(storages, o) == \E i \in 1..Len(storages) : storages[i].type = o
storageOf(storages, o) == storages[CHOOSE i \in 1..Len(storages) : storages[i].type = o]

called(w, f) == [w EXCEPT !.calls = @ \cup {f}]

\* clearFiles: empties #files, puts back the current-folder header and the up node
clearFiles(w) ==
  IF w.dom.files
  THEN [called(w, "clearFiles") EXCEPT
          !.dom.folders = {}, !.dom.up = Len(w.m.current_path) > 1]
  ELSE called(w, "clearFiles")

\* node?.children?.filter((i) => i.type === type) || []
childrenOfType(node, type) ==
  IF "children" \in DOMAIN node
  THEN SelectSeq(node.children, LAMBDA i : i.type = type)
  ELSE <<>>

\* a counter that stays in the folder it is given
countFilesDirect(node) == Len(childrenOfType(node, "machinecode"))

RECURSIVE countFoldersRecursively(_)
RECURSIVE countFilesRecursively(_)
RECURSIVE sumOver(_, _, _)
\* folders.forEach((i) => (count += f(i))), f being one of the two counters
sumOver(folders, k, files) ==
  IF k > Len(folders) THEN 0
  ELSE (IF files THEN countFilesRecursively(folders[k])
        ELSE countFoldersRecursively(folders[k]))
       + sumOver(folders, k + 1, files)

countFoldersRecursively(node) ==
  LET folders == childrenOfType(node, "folder")
  IN  Len(folders) + sumOver(folders, 1, FALSE)

countFilesRecursively(node) ==
  LET files == childrenOfType(node, "machinecode")
      folders == childrenOfType(node, "folder")
  IN  Len(files) + sumOver(folders, 1, TRUE)

\* createNodeFolder(name, path, details): the node keeps the path for its click
\* handler and shows the two counts
createNodeFolder(entry) ==
  [path |-> entry.path,
   files |-> countFilesRecursively(entry),
   folders |-> countFoldersRecursively(entry)]

\* redrawFiles: sorts metadata.files in place and adds a node per entry
redrawFiles(w) ==
  IF w.dom.files
  THEN LET sorted == sortFiles(w.m.files, w.m.sort)
           isFolder == {j \in 1..Len(sorted) : sorted[j].type = "folder"}
       IN  [called(w, "redrawFiles") EXCEPT
              !.m.files = sorted,
              !.dom.folders = @ \cup {createNodeFolder(sorted[i]) : i \in isFolder}]
  ELSE called(w, "redrawFiles")

\* an updateFiles whose force leaves the ETag alone
updateFilesKeepsETag(w, force) ==
  IF ~inStorages(w.m.storages, w.m.origin) THEN w
  ELSE LET storage == storageOf(w.m.storages, w.m.origin)
           url == join(<<storage.name>> \o slice1(w.m.current_path))
       IN  [called(w, "updateFiles") EXCEPT
              !.polls = @ (+) SetToBag({[url |-> url, lastETag |-> w.m.eTag, force |-> force,
                                          appliedAtSend |-> hist.applied,
                                          failedAtSend |-> hist.failed]})]

\* updateFiles up to the request: the request is sent with the ETag read here.  A
\* forced one calls initUpload, which reads the storage's path and hands over to the
\* upload component (UploadInit)
updateFiles(w, force) ==
  IF ~inStorages(w.m.storages, w.m.origin) THEN w
  ELSE LET storage == storageOf(w.m.storages, w.m.origin)
           url == join(<<storage.name>> \o slice1(w.m.current_path))
           lastETag == IF force THEN Null ELSE w.m.eTag
           sending == IF force THEN called(called(w, "updateFiles"), "initUpload")
                      ELSE called(w, "updateFiles")
       IN  [sending EXCEPT
              !.m.eTag = IF force THEN Null ELSE @,
              !.polls = @ (+) SetToBag({[url |-> url, lastETag |-> lastETag, force |-> force,
                                          appliedAtSend |-> hist.applied,
                                          failedAtSend |-> hist.failed]})]

\* the .then of updateFiles, given the response's ETag and file list: the response is
\* applied when its ETag is not the one the request was sent with
updateFilesThen(w, req, eTag, files) ==
  IF eTag # req.lastETag
  THEN redrawFiles(clearFiles([w EXCEPT !.m.eTag = eTag, !.m.files = files]))
  ELSE w

\* a rejection that empties the list
updateFilesRejectedClears(w, req) == clearFiles([w EXCEPT !.m.files = <<>>, !.m.eTag = Null])

\* the request of updateFiles is rejected: the chain has no catch, nothing runs
updateFilesRejected(w, req) == w

\* a selectStorage that does not look at storage.available
selectStorageAny(w, o) ==
  LET w1 == clearFiles(w)
  IN  IF inStorages(w1.m.storages, o)
      THEN updateFiles(
             clearFiles([w1 EXCEPT !.m.origin = o,
                                  !.m.current_path = <<storageOf(w1.m.storages, o).name>>]),
             TRUE)
      ELSE w1

selectStorage(w, o) ==
  LET w1 == clearFiles(w)
  IN  IF inStorages(w1.m.storages, o) /\ storageOf(w1.m.storages, o).available
      THEN updateFiles(
             clearFiles([w1 EXCEPT !.m.origin = o,
                                  !.m.current_path = <<storageOf(w1.m.storages, o).name>>]),
             TRUE)
      ELSE w1

\* array.find((i) => i[field] === value): the first such element, or undefined
findBy(list, field, value) ==
  LET hits == {i \in 1..Len(list) : field \in DOMAIN list[i] /\ list[i][field] = value}
  IN  IF hits = {} THEN [kind |-> "undefined"]
      ELSE [kind |-> "node", node |-> list[CHOOSE i \in hits : \A j \in hits : i <= j]]

RECURSIVE findSegments(_, _)
\* the for loop of findFile: target.children.find(...) throws a TypeError when the
\* target has no children property
findSegments(target, segs) ==
  IF segs = <<>> \/ target.kind = "undefined" THEN target
  ELSE IF "children" \notin DOMAIN target.node THEN [kind |-> "TypeError"]
  ELSE findSegments(findBy(target.node.children, "name", Head(segs)), Tail(segs))

\* findFile(origin, path): what it returns ("node" or "null"), or the error it throws
findFile(files, origin, path) ==
  IF origin = Null \/ path = <<>> THEN [kind |-> "null"]
  ELSE LET target == findBy(files, "origin", origin)
           pathSegments == IF printerType = "fdm"
                           THEN slice1(filterNonEmpty(split(path)))
                           ELSE filterNonEmpty(split(path))
           found == findSegments(target, pathSegments)
       IN  IF found.kind = "TypeError" THEN found
           ELSE IF found.kind = "node" /\ found.node.type = "machinecode" THEN found
           ELSE [kind |-> "null"]

RECURSIVE storeEntriesKeepsOrigin(_, _, _)
\* a list.forEach that caches the entries and never clears the origin
storeEntriesKeepsOrigin(m, list, k) ==
  IF k > Len(list) THEN m
  ELSE LET e == list[k]
           stor == IF inStorages(m.storages, e.type)
                   THEN [i \in 1..Len(m.storages) |->
                           IF m.storages[i].type = e.type THEN e ELSE m.storages[i]]
                   ELSE Append(m.storages, e)
       IN  storeEntriesKeepsOrigin([m EXCEPT !.storages = stor], list, k + 1)

RECURSIVE storeEntries(_, _, _)
\* list.forEach of updateStorage over the entries from the k-th on: an entry replaces
\* the cached one of its type in place, a new type is added at the end; the selected
\* storage that became unavailable clears the origin (to false)
storeEntries(m, list, k) ==
  IF k > Len(list) THEN m
  ELSE LET e == list[k]
           known == inStorages(m.storages, e.type)
           cached == storageOf(m.storages, e.type)
           org == IF known /\ cached.available # e.available
                     /\ m.origin = e.type /\ ~e.available
                  THEN False ELSE m.origin
           stor == IF known
                   THEN [i \in 1..Len(m.storages) |->
                           IF m.storages[i].type = e.type THEN e ELSE m.storages[i]]
                   ELSE Append(m.storages, e)
       IN  storeEntries([m EXCEPT !.origin = org, !.storages = stor], list, k + 1)

\* Object.keys(metadata.storages).find((s) => metadata.storages[s].available)
findAvailable(storages) ==
  LET avail == {i \in 1..Len(storages) : storages[i].available}
  IN  IF avail = {} THEN Null
      ELSE storages[CHOOSE i \in avail : \A j \in avail : i <= j].type

\* the .then of updateStorage, given the response's storage_list
updateStorageThen(w, list) ==
  LET stored == [w EXCEPT !.m = storeEntries(w.m, list, 1)]
      \* the log of the handler notes the assignment metadata.origin = false
      w1 == IF stored.m.origin = False /\ w.m.origin # False
            THEN called(stored, "origin = false") ELSE stored
  IN  IF w1.m.origin \in {Null, False} /\ findAvailable(w1.m.storages) # Null
      THEN selectStorage(w1, findAvailable(w1.m.storages))
      ELSE w1

\* the click handler of a folder node made by createNodeFolder(name, path, details)
folderClick(w, path) ==
  LET cp == IF printerType = "sla"
            THEN <<(<<w.m.origin>>)>> \o filterNonEmpty(split(path))
            ELSE Append(w.m.current_path, replaceSlash(path))
  IN  updateFiles(clearFiles([w EXCEPT !.m.current_path = cp]), TRUE)

\* the click handler of the up node made by createUp
upClick(w) ==
  updateFiles(
    clearFiles([w EXCEPT !.m.current_path = SubSeq(@, 1, Len(@) - 1)]), TRUE)

\* the click handler of a sort toggle made by createCurrent
sortClick(w, field) ==
  LET order == IF w.m.sort.field = field
               THEN (IF w.m.sort.order = "asc" THEN "desc" ELSE "asc")
               ELSE "asc"
  IN  redrawFiles(clearFiles([w EXCEPT !.m.sort = [field |-> field, order |-> order]]))

----------------------------------------------------------------------------
(* The files page as a state machine *)

World == [m |-> metadata, polls |-> filePolls, dom |-> dom, calls |-> {}]

\* A handler that started in world w0 (its request, if it is a response, taken off the
\* requests in flight) and ended in world w becomes the state.  dS is what it does to
\* the storage requests in flight: 1 sends one, -1 takes one off, 0 neither.
Commit(w0, w, op, arg, dS) ==
  LET newPolls == BagCardinality(w.polls) - BagCardinality(w0.polls)
  IN  /\ sent + newPolls <= MaxPolls
      /\ storagePolls + dS <= MaxStoragePolls
      /\ sent' = sent + newPolls
      /\ storagePolls' = storagePolls + dS
      /\ metadata' = w.m
      /\ filePolls' = w.polls
      /\ dom' = w.dom
      /\ last' = [op |-> op, arg |-> arg, calls |-> w.calls]
      /\ UNCHANGED <<queueVars, upload>>

\* the module as loaded: no page, no request
InitBrowser ==
  /\ metadata = metadata0
  /\ filePolls = EmptyBag
  /\ storagePolls = 0
  /\ dom = [files |-> FALSE, folders |-> {}, up |-> FALSE]
  /\ hist = [applied |-> Null, failed |-> "no"]
  /\ sent = 0

InitQueue ==
  /\ previewLazyQueue = <<>>
  /\ images = [created |-> {}, observed |-> {}, src |-> {}, fetching |-> EmptyBag,
               queued |-> <<>>, started |-> <<>>, settled |-> <<>>]

upload0 ==
  [isUploading |-> FALSE, progress |-> 0, state |-> "choose", onchange |-> FALSE,
   reads |-> 0, requests |-> 0, started |-> 0]

InitUpload == upload = upload0

last0 == [op |-> "init", arg |-> Null, calls |-> {}]

\* the fdm build, the files page
Init ==
  /\ printerType = "fdm"
  /\ last = last0
  /\ InitBrowser
  /\ InitQueue
  /\ InitUpload

\* load(): the page is put up, the ETag is forgotten, both polls are sent
Load ==
  /\ LET w0 == [World EXCEPT !.m.eTag = Null,
                             !.dom = [files |-> TRUE, folders |-> {}, up |-> FALSE]]
     IN  Commit(World, updateFiles(w0, FALSE), "load", Null, 1)
  /\ UNCHANGED <<printerType, hist>>

\* update(): the periodic poll of the page that is shown
Update ==
  /\ dom.files
  /\ Commit(World, updateFiles(World, FALSE), "update", Null, 1)
  /\ UNCHANGED <<printerType, hist>>

\* the page is left: its nodes are gone, requests stay in flight
Leave ==
  /\ dom.files
  /\ Commit(World, [World EXCEPT !.dom = [files |-> FALSE, folders |-> {}, up |-> FALSE]],
            "leave", Null, 0)
  /\ UNCHANGED <<printerType, hist>>

\* the response of a storage request arrives and its .then runs
StorageResponseOf(lists) ==
  /\ storagePolls > 0
  /\ \E list \in lists :
       Commit(World, updateStorageThen(World, list), "updateStorage", list, -1)
  /\ UNCHANGED <<printerType, hist>>

\* the storage request is rejected: its .then does not run
StorageFail ==
  /\ storagePolls > 0
  /\ Commit(World, World, "storageFail", Null, -1)
  /\ UNCHANGED <<printerType, hist>>

\* the response of any file request in flight arrives and its .then runs
FilesResponseOf(tags) ==
  \E req \in BagToSet(filePolls), eTag \in tags :
    LET w0 == [World EXCEPT !.polls = @ (-) SetToBag({req})]
    IN  /\ Commit(w0, updateFilesThen(w0, req, eTag, Listing(req.url, eTag)), "updateFiles",
                  [req |-> req, eTag |-> eTag], 0)
        /\ hist' = [hist EXCEPT !.applied = IF eTag # req.lastETag THEN eTag ELSE @]
        /\ UNCHANGED printerType

\* a file request is rejected: its .then does not run
FilesFail ==
  \E req \in BagToSet(filePolls) :
    /\ LET w0 == [World EXCEPT !.polls = @ (-) SetToBag({req})]
       IN  Commit(w0, updateFilesRejected(w0, req), "filesFail", [req |-> req], 0)
    /\ hist' = [hist EXCEPT !.failed = IF req.force THEN "forced" ELSE "poll"]
    /\ UNCHANGED printerType

FolderClick ==
  \E node \in dom.folders :
    /\ Len(metadata.current_path) <= MaxDepth
    /\ Commit(World, folderClick(World, node.path), "folderClick", node.path, 0)
    /\ UNCHANGED <<printerType, hist>>

UpClick ==
  /\ dom.up
  /\ Commit(World, upClick(World), "upClick", Null, 0)
  /\ UNCHANGED <<printerType, hist>>

\* selectStorage(origin), the callback handed to the storage tabs
SelectStorage ==
  \E o \in StorageTypes :
    /\ Commit(World, selectStorage(World, o), "selectStorage", o, 0)
    /\ UNCHANGED <<printerType, hist>>

\* the storage lists of the file-poll specification: both storages, local first
ListsInOrder == {l \in StorageLists : Len(l) = 2 /\ l[1].type = "LOCAL"}

StorageResponse == StorageResponseOf(ListsInOrder)
FilesResponse == FilesResponseOf(ETags)

Next ==
  \/ Load
  \/ Update
  \/ Leave
  \/ StorageResponse
  \/ StorageFail
  \/ FilesResponse
  \/ FilesFail
  \/ FolderClick
  \/ UpClick
  \/ SelectStorage

Spec == Init /\ [][Next]_vars

\* the storage poller on its own: every storage list, one version of every listing
StorageResponseAny == StorageResponseOf(StorageLists)
FilesResponseSame == FilesResponseOf({"e1"})

NextStorage ==
  \/ Load
  \/ Update
  \/ StorageResponseAny
  \/ StorageFail
  \/ FilesResponseSame
  \/ SelectStorage

SpecStorage == Init /\ [][NextStorage]_vars

----------------------------------------------------------------------------
(* Rendering: sortFiles, the folder counters and findFile on lists that a response   *)
(* brings.  These specifications start where the page is shown, the local storage is *)
(* selected and its forced poll is in flight.                                        *)

\* entries of a list, at most this many
MaxLen == 3
\* folders nested in a folder, at most this deep
MaxTreeDepth == 2
\* segments of a path handed to findFile
MaxSegs == 3

InitAwaiting ==
  /\ hist = [applied |-> Null, failed |-> "no"]
  /\ LET shown == [m |-> metadata0, polls |-> EmptyBag,
                   dom |-> [files |-> TRUE, folders |-> {}, up |-> FALSE], calls |-> {}]
         list == <<StorageData("LOCAL", TRUE), StorageData("USB", TRUE)>>
         w == updateStorageThen(shown, list)
     IN  /\ metadata = w.m
         /\ filePolls = w.polls
         /\ dom = w.dom
         /\ last = [op |-> "updateStorage", arg |-> list, calls |-> w.calls]
  /\ storagePolls = 0
  /\ sent = 1
  /\ InitQueue
  /\ InitUpload

\* the fdm build
InitRender ==
  /\ printerType = "fdm"
  /\ InitAwaiting

\* the response of a file request in flight brings one of the given lists
FilesResponseWith(lists) ==
  \E req \in BagToSet(filePolls), files \in lists :
    LET w0 == [World EXCEPT !.polls = @ (-) SetToBag({req})]
    IN  /\ Commit(w0, updateFilesThen(w0, req, "e1", files), "updateFiles",
                  [req |-> req, eTag |-> "e1", files |-> files], 0)
        /\ hist' = [hist EXCEPT !.applied = "e1"]
        /\ UNCHANGED printerType

\* a click on a sort toggle of the current-folder header
SortClick ==
  \E i \in 1..Len(SORT_FIELDS) :
    /\ dom.files
    /\ Commit(World, sortClick(World, SORT_FIELDS[i]), "sortClick", SORT_FIELDS[i], 0)
    /\ UNCHANGED <<printerType, hist>>

\* sequences without repetition over a set, up to a length
RECURSIVE SeqsUpTo(_, _)
SeqsUpTo(S, n) ==
  IF n = 0 THEN {<<>>}
  ELSE LET shorter == SeqsUpTo(S, n - 1)
       IN  shorter \cup {Append(q, x) : q \in {r \in shorter : Len(r) = n - 1}, x \in S}

Distinct(q) == \A i \in 1..Len(q) : \A j \in 1..Len(q) : q[i] = q[j] => i = j

\* entries that tie on the name (A, B; F, G), on the date (H, K: none and 0) and on
\* the size (F, G; H, K)
SortPool ==
  { [name |-> <<"A">>, display |-> <<"a">>, type |-> "folder", path |-> <<"/", "A">>, date |-> 1],
    [name |-> <<"B">>, display |-> <<"a">>, type |-> "folder", path |-> <<"/", "B">>],
    [name |-> <<"F">>, display |-> <<"f">>, type |-> "machinecode", date |-> 1, size |-> 1],
    [name |-> <<"G">>, display |-> <<"f">>, type |-> "machinecode", date |-> 2, size |-> 1],
    [name |-> <<"H">>, display |-> <<"g">>, type |-> "machinecode"],
    [name |-> <<"K">>, display |-> <<"a">>, type |-> "firmware", date |-> 0, size |-> 0] }

SortInputs == {q \in SeqsUpTo(SortPool, MaxLen) : Distinct(q)}

RenderList == FilesResponseWith(SortInputs)

NextSort ==
  \/ RenderList
  \/ SortClick

SpecSort == InitRender /\ [][NextSort]_vars

\* C5's two properties of a sorted list
FoldersFirst(out) ==
  \A i \in 1..Len(out) : \A j \in 1..Len(out) :
    (out[i].type # "folder" /\ out[j].type = "folder") => j < i

IndexOf(q, e) == CHOOSE i \in 1..Len(q) : q[i] = e

SameKey(x, y, field) ==
  CASE field = "date" -> orZero(x, "date") = orZero(y, "date")
    [] field = "size" -> orZero(x, "size") = orZero(y, "size")
    [] OTHER -> x.display = y.display

StableFor(in, out, field) ==
  /\ Len(out) = Len(in)
  /\ {out[i] : i \in 1..Len(out)} = {in[i] : i \in 1..Len(in)}
  /\ \A i \in 1..Len(in) : \A j \in 1..Len(in) :
       (/\ i < j
        /\ (in[i].type = "folder") = (in[j].type = "folder")
        /\ SameKey(in[i], in[j], field))
       => IndexOf(out, in[i]) < IndexOf(out, in[j])

\* C5: whatever list sortFiles is given (the list of a response, or the list on the
\* page when a sort toggle is clicked) and whatever the field and the order, the
\* sorted list has every folder before every other entry, and entries of one kind
\* that tie on the field keep the order they came in.
C5_FoldersFirstAndStable ==
  [][(last'.op \in {"updateFiles", "sortClick"} /\ "redrawFiles" \in last'.calls)
       => LET in == IF last'.op = "updateFiles" THEN last'.arg.files ELSE metadata.files
          IN  /\ FoldersFirst(metadata'.files)
              /\ StableFor(in, metadata'.files, metadata'.sort.field)]_vars

\* C5's case: a list came with a file before a folder and with two files that tie, it
\* was sorted in descending order, the folder is first and the tie kept its order
C5_Witness ==
  /\ last.op = "sortClick"
  /\ metadata.sort = [field |-> "size", order |-> "desc"]
  /\ Len(metadata.files) = 3
  /\ metadata.files[1].name = <<"A">>
  /\ metadata.files[2].name = <<"G">>
  /\ metadata.files[3].name = <<"F">>

----------------------------------------------------------------------------
(* The folder counters *)

\* the nodes that are not folders
TreeLeaves ==
  { [name |-> <<"f">>, type |-> "machinecode"], [name |-> <<"g">>, type |-> "firmware"] }

\* up to two children
ChildLists(S) == {<<>>} \cup {<<x>> : x \in S} \cup {<<x, y>> : x \in S, y \in S}

RECURSIVE Trees(_)
\* the trees of a depth: only folders have children, a folder may come without
Trees(d) ==
  TreeLeaves
  \cup {[name |-> <<"a">>, type |-> "folder", path |-> <<"/", "a">>]}
  \cup (IF d = 0 THEN {}
        ELSE {[name |-> <<"a">>, type |-> "folder", path |-> <<"/", "a">>, children |-> c] :
                c \in ChildLists(Trees(d - 1))})

TreeInputs == {<<t>> : t \in {u \in Trees(MaxTreeDepth) : u.type = "folder"}}

RenderTree == FilesResponseWith(TreeInputs)

NextCount == RenderTree

SpecCount == InitRender /\ [][NextCount]_vars

RECURSIVE Descendants(_)
RECURSIVE DescendantsOfAll(_)
\* the reference walk: every node below a node, whatever its type
Descendants(node) ==
  IF "children" \in DOMAIN node THEN DescendantsOfAll(node.children) ELSE <<>>
DescendantsOfAll(nodes) ==
  IF nodes = <<>> THEN <<>>
  ELSE <<Head(nodes)>> \o Descendants(Head(nodes)) \o DescendantsOfAll(Tail(nodes))

CountOfType(node, type) == Len(SelectSeq(Descendants(node), LAMBDA n : n.type = type))

\* C7: the two counts shown on a folder's node are the numbers of folders and of
\* files (machinecode) among all the nodes below the folder.
C7_CountsMatchReferenceWalk ==
  (last.op = "updateFiles" /\ "files" \in DOMAIN last.arg) =>
    \A i \in 1..Len(metadata.files) :
      metadata.files[i].type = "folder" =>
        \E n \in dom.folders :
          /\ n.path = metadata.files[i].path
          /\ n.folders = CountOfType(metadata.files[i], "folder")
          /\ n.files = CountOfType(metadata.files[i], "machinecode")

\* C7's case: a folder with a folder and a file in it, the inner folder with files
\* and a folder of its own
C7_Witness ==
  /\ last.op = "updateFiles"
  /\ \E n \in dom.folders : n.folders = 2 /\ n.files = 3

----------------------------------------------------------------------------
(* findFile *)

FindForest ==
  << [name |-> <<"local">>, origin |-> "local", type |-> "folder", path |-> <<"/", "local">>,
      children |->
        << [name |-> <<"a">>, type |-> "folder", path |-> <<"/", "a">>,
            children |-> << [name |-> <<"f">>, type |-> "machinecode", date |-> 2] >>],
           [name |-> <<"f">>, type |-> "machinecode", date |-> 1],
           [name |-> <<"b">>, type |-> "folder", path |-> <<"/", "b">>, children |-> <<>>] >>],
     [name |-> <<"usb">>, origin |-> "usb", type |-> "folder", path |-> <<"/", "usb">>,
      children |-> <<>>] >>

RenderForest == FilesResponseWith({FindForest})

FindSegments == {<<"local">>, <<"a">>, <<"b">>, <<"f">>, <<"x">>}

RECURSIVE AllSeqs(_, _)
AllSeqs(S, n) ==
  IF n = 0 THEN {<<>>}
  ELSE LET shorter == AllSeqs(S, n - 1)
       IN  shorter \cup {Append(q, x) : q \in {r \in shorter : Len(r) = n - 1}, x \in S}

\* "" and the paths "/s1/.../sn"
FindPaths == {<<>>} \cup {<<"/">> \o join(q) : q \in AllSeqs(FindSegments, MaxSegs) \ {<<>>}}

\* findFile(previewFile.origin, previewFile.path), as load() calls it
FindFile ==
  \E origin \in {Null, "local", "usb"}, path \in FindPaths :
    /\ last' = [op |-> "findFile",
                arg |-> [origin |-> origin, path |-> path,
                         result |-> findFile(metadata.files, origin, path)],
                calls |-> {}]
    /\ UNCHANGED <<browserVars, queueVars, upload>>

NextFind ==
  \/ RenderForest
  \/ FindFile

\* either build
InitFind ==
  /\ printerType \in {"fdm", "sla"}
  /\ InitAwaiting

SpecFind == InitFind /\ [][NextFind]_vars

RECURSIVE Resolve(_, _)
\* the node a list of segments names below a node, "null" when a segment names no
\* child of the node reached (a node without children has no child)
Resolve(node, segs) ==
  IF segs = <<>> THEN [kind |-> "node", node |-> node]
  ELSE LET kids == IF "children" \in DOMAIN node THEN node.children ELSE <<>>
           hits == {i \in 1..Len(kids) : kids[i].name = Head(segs)}
       IN  IF hits = {} THEN [kind |-> "null"]
           ELSE Resolve(kids[CHOOSE i \in hits : \A j \in hits : i <= j], Tail(segs))

Expected(files, origin, path) ==
  LET roots == {i \in 1..Len(files) : "origin" \in DOMAIN files[i] /\ files[i].origin = origin}
      all == filterNonEmpty(split(path))
      segs == IF printerType = "fdm" THEN slice1(all) ELSE all
  IN  IF origin = Null \/ path = <<>> \/ roots = {} THEN [kind |-> "null"]
      ELSE LET r == Resolve(files[CHOOSE i \in roots : \A j \in roots : i <= j], segs)
           IN  IF r.kind = "node" /\ r.node.type = "machinecode" THEN r ELSE [kind |-> "null"]

\* C6, as claimed: findFile throws no error; it returns the node when every segment is
\* found in order and the last node is a file (machinecode), and null otherwise: also
\* when a segment follows a node without children.
C6_FindFileNullWithoutError ==
  last.op = "findFile" =>
    /\ last.arg.result.kind # "TypeError"
    /\ last.arg.result = Expected(metadata.files, last.arg.origin, last.arg.path)

\* what does hold: findFile gives what C6 says on every path that does not step below
\* a node without children
FindFileRightUnlessItThrows ==
  (last.op = "findFile" /\ last.arg.result.kind # "TypeError") =>
    last.arg.result = Expected(metadata.files, last.arg.origin, last.arg.path)

----------------------------------------------------------------------------
(* The preview lazy queue (WITH_PREVIEW_LAZY_QUEUE set).  images.created are the img  *)
(* nodes made so far, images.observed the ones the intersection observer watches,    *)
(* images.src the ones that got their preview, images.fetching the getImage requests *)
(* in flight (a bag of targets).  The log: images.queued the targets in the order    *)
(* they were pushed, images.started in the order their fetch was started,            *)
(* images.settled how each fetch ended.                                              *)

\* img nodes made in a run
MaxImages == 2
\* targets pushed onto the queue in a run
MaxPushes == 3

Targets == 1..MaxImages

\* a queue state a callback works on
Lazy == [queue |-> previewLazyQueue, images |-> images]

\* loadPreviewQueued(): the fetch of the first target of the queue, if there is one
loadPreviewQueued(z) ==
  IF z.queue # <<>>
  THEN [z EXCEPT !.images.fetching = @ (+) SetToBag({z.queue[1]}),
                 !.images.started = Append(@, z.queue[1])]
  ELSE z

\* a push that starts a fetch every time
pushTargetAndLoad(z, target) ==
  LET pushed == [z EXCEPT !.queue = Append(@, target),
                          !.images.queued = Append(@, target)]
  IN  [pushed EXCEPT !.images.fetching = @ (+) SetToBag({target}),
                     !.images.started = Append(@, target)]

\* an intersecting entry: previewLazyQueue.push(entry.target), and the fetch is
\* started when the target is the only one in the queue
pushTarget(z, target) ==
  LET pushed == [z EXCEPT !.queue = Append(@, target),
                          !.images.queued = Append(@, target)]
  IN  IF Len(pushed.queue) = 1 THEN loadPreviewQueued(pushed) ELSE pushed

RECURSIVE forEachEntry(_, _)
\* entries.forEach(...) over the intersecting entries of a callback
forEachEntry(z, entries) ==
  IF entries = <<>> THEN z
  ELSE forEachEntry(pushTarget(z, Head(entries)), Tail(entries))

\* getImage(...).then(...).finally(...): then sets the src when the fetch succeeded,
\* finally unobserves the target, shifts the queue and goes on with the next target
getImageSettled(z, target, ok) ==
  LET done == [z EXCEPT !.images.fetching = @ (-) SetToBag({target}),
                        !.images.src = IF ok THEN @ \cup {target} ELSE @,
                        !.images.settled = Append(@, [target |-> target, ok |-> ok]),
                        !.images.observed = @ \ {target},
                        !.queue = Tail(@)]
  IN  loadPreviewQueued(done)

CommitQueue(z, op, arg) ==
  /\ previewLazyQueue' = z.queue
  /\ images' = z.images
  /\ last' = [op |-> op, arg |-> arg, calls |-> {}]
  /\ UNCHANGED <<browserVars, upload>>

\* a file node is drawn: its img is handed to the observer
Observe ==
  \E target \in Targets \ images.created :
    CommitQueue([Lazy EXCEPT !.images.created = @ \cup {target},
                             !.images.observed = @ \cup {target}], "observe", target)

\* the observer's callback with the entries of observed targets that intersect
Intersect ==
  \E entries \in {q \in SeqsUpTo(images.observed, MaxImages) : q # <<>> /\ Distinct(q)} :
    /\ Len(images.queued) + Len(entries) <= MaxPushes
    /\ CommitQueue(forEachEntry(Lazy, entries), "intersect", entries)

ImageLoaded ==
  \E target \in BagToSet(images.fetching) :
    CommitQueue(getImageSettled(Lazy, target, TRUE), "getImage", target)

ImageFailed ==
  \E target \in BagToSet(images.fetching) :
    CommitQueue(getImageSettled(Lazy, target, FALSE), "getImage", target)

\* a request ends: with the image or with an error
ImageSettled == ImageLoaded \/ ImageFailed

NextQueue ==
  \/ Observe
  \/ Intersect
  \/ ImageLoaded
  \/ ImageFailed

InitQueuePage ==
  /\ printerType = "fdm"
  /\ last = last0
  /\ InitBrowser
  /\ InitQueue
  /\ InitUpload

SpecQueue == InitQueuePage /\ [][NextQueue]_vars /\ WF_vars(ImageSettled)

IsPrefix(p, q) == Len(p) <= Len(q) /\ \A i \in 1..Len(p) : p[i] = q[i]

\* C8: at no time is more than one getImage request in flight; the fetches start in
\* the order the targets were queued; and whether a fetch fails or not, every target
\* queued gets its fetch and the queue gets empty.
C8_OneAtATimeInOrderNoStall ==
  /\ [](BagCardinality(images.fetching) <= 1)
  /\ [](IsPrefix(images.started, images.queued))
  /\ \A k \in 1..(MaxPushes + 1) :
       (Len(images.queued) >= k) ~> (Len(images.started) >= k)
  /\ (previewLazyQueue # <<>>) ~> (previewLazyQueue = <<>>)

\* C8's case: targets were queued behind a fetch that then failed, the next one was
\* fetched and loaded, and the queue is empty
C8_Witness ==
  /\ Len(images.settled) >= 2
  /\ ~images.settled[1].ok
  /\ images.settled[2].ok
  /\ images.settled[1].target # images.settled[2].target
  /\ images.started = images.queued
  /\ previewLazyQueue = <<>>

----------------------------------------------------------------------------
(* The direct upload widget.  upload.onchange: the page has the widget and init has  *)
(* set the input's handler; upload.state: the data-state of #upld-direct;            *)
(* upload.reads: file.arrayBuffer() promises pending; upload.requests: uploadRequest *)
(* promises pending; upload.started: the calls of uploadFile so far.                 *)

\* calls of uploadFile in a run
MaxUploads == 3
\* the percentages a request reports
Percentages == {50, 100}

Widget == [u |-> upload, calls |-> {}]

setState(x, state) ==
  [x EXCEPT !.u.isUploading = (state = "uploading"), !.u.state = state]

setProgress(x, pct) == [x EXCEPT !.u.progress = pct]

reset(x) == setState(setProgress(x, 0), "choose")

\* init(origin, path, fileExtensions), with initInput
init(x) ==
  LET handled == [x EXCEPT !.u.onchange = TRUE]
  IN  IF handled.u.isUploading
      THEN setProgress(setState(handled, "uploading"), handled.u.progress)
      ELSE handled

\* uploadFile up to file.arrayBuffer()
uploadFile(x) == [x EXCEPT !.u.reads = @ + 1, !.u.started = @ + 1]

\* input.onchange
onchange(x, files) ==
  IF files > 0 /\ ~x.u.isUploading THEN uploadFile(x) ELSE x

\* the then of file.arrayBuffer(): the request is sent
arrayBufferThen(x) ==
  [setProgress(setState(x, "uploading"), 0) EXCEPT !.u.reads = @ - 1, !.u.requests = @ + 1]

onProgressChanged(x, pct) == setProgress(setState(x, "uploading"), pct)

onUploadSuccess(x) == [x EXCEPT !.calls = @ \cup {"success"}]

\* an onUploadError that hands everything to handleError
onUploadErrorAlwaysHandles(x, result) == [x EXCEPT !.calls = @ \cup {"handleError"}]

\* result: "undefined" when the rejection carries nothing
onUploadError(x, result) ==
  IF result # "undefined"
  THEN [x EXCEPT !.calls = @ \cup {"handleError"}]
  ELSE [x EXCEPT !.calls = @ \cup {"error"}]

\* uploadRequest(...).then(...).catch(...).finally(...) of a request that succeeded
uploadResolved(x) == reset(onUploadSuccess([x EXCEPT !.u.requests = @ - 1]))

\* and of a request that failed
uploadRejected(x, result) == reset(onUploadError([x EXCEPT !.u.requests = @ - 1], result))

CommitUpload(x, op, arg) ==
  /\ upload' = x.u
  /\ last' = [op |-> op, arg |-> arg, calls |-> x.calls]
  /\ UNCHANGED <<browserVars, queueVars>>

UploadInit == CommitUpload(init(Widget), "init", Null)

\* the user picks files, or closes the dialog with none
Change ==
  \E files \in 0..1 :
    /\ upload.onchange
    /\ upload.started < MaxUploads
    /\ CommitUpload(onchange(Widget, files), "onchange", files)

ReadDone ==
  /\ upload.reads > 0
  /\ CommitUpload(arrayBufferThen(Widget), "arrayBuffer", Null)

\* file.arrayBuffer() rejects: nothing handles it
ReadFailed ==
  /\ upload.reads > 0
  /\ CommitUpload([Widget EXCEPT !.u.reads = @ - 1], "arrayBufferRejected", Null)

Progress ==
  \E pct \in Percentages :
    /\ upload.requests > 0
    /\ CommitUpload(onProgressChanged(Widget, pct), "onProgress", pct)

UploadDone ==
  /\ upload.requests > 0
  /\ CommitUpload(uploadResolved(Widget), "uploadResolved", Null)

UploadFailed ==
  \E result \in {"undefined", "error object"} :
    /\ upload.requests > 0
    /\ CommitUpload(uploadRejected(Widget, result), "uploadRejected", result)

NextUpload ==
  \/ UploadInit
  \/ Change
  \/ ReadDone
  \/ ReadFailed
  \/ Progress
  \/ UploadDone
  \/ UploadFailed

InitUploadPage ==
  /\ printerType = "fdm"
  /\ last = last0
  /\ InitBrowser
  /\ InitQueue
  /\ InitUpload

SpecUpload == InitUploadPage /\ [][NextUpload]_vars

\* C10: a failed upload request raises exactly one notification: handleError and no
\* error toast when the rejection carries a result, the error toast and no handleError
\* when it carries none; and never the success toast.
C10_FailureNotifiesOnce ==
  last.op = "uploadRejected" =>
    /\ last.arg # "undefined" => last.calls = {"handleError"}
    /\ last.arg = "undefined" => last.calls = {"error"}
    /\ "success" \notin last.calls

\* C10's case: the second upload of a run failed with nothing in the rejection
C10_Witness ==
  /\ last.op = "uploadRejected"
  /\ last.arg = "undefined"
  /\ "error" \in last.calls
  /\ upload.started = 2
  /\ ~upload.isUploading

----------------------------------------------------------------------------
(* The file poller *)

Redrawn(l) == {"clearFiles", "redrawFiles"} \subseteq l.calls
NotRedrawn(l) == l.calls \cap {"clearFiles", "redrawFiles"} = {}

\* C1, as claimed: in every step that handles the response of a non-forced poll whose
\* ETag is the one metadata.eTag holds, metadata.files and metadata.eTag stay as they
\* are and neither clearFiles nor redrawFiles is called.
C1_UnchangedETagIsNoOp ==
  [][(last'.op = "updateFiles" /\ ~last'.arg.req.force /\ last'.arg.eTag = metadata.eTag)
       => (/\ metadata'.files = metadata.files
           /\ metadata'.eTag = metadata.eTag
           /\ NotRedrawn(last'))]_vars

\* what a handled response leaves in metadata.files: the response's list, which
\* redrawFiles has sorted in place when #files is on the page
Shown(url, eTag) ==
  IF dom.files THEN sortFiles(Listing(url, eTag), metadata.sort) ELSE Listing(url, eTag)

\* C2: the response of a forced poll is always applied, whatever ETag was cached and
\* whatever ETag it carries: metadata.files becomes the response's file list (which
\* redrawFiles sorts in place when #files is on the page), metadata.eTag becomes the
\* response's ETag, and clearFiles and redrawFiles are called.
C2_ForcedAlwaysApplied ==
  [][(last'.op = "updateFiles" /\ last'.arg.req.force)
       => (/\ metadata'.files = Shown(last'.arg.req.url, last'.arg.eTag)
           /\ metadata'.eTag = last'.arg.eTag
           /\ Redrawn(last'))]_vars

\* C2's case: a forced poll was answered with the very ETag that was applied before
\* it was sent, and the response was applied all the same
C2_Witness ==
  /\ last.op = "updateFiles"
  /\ last.arg.req.force
  /\ last.arg.req.appliedAtSend = last.arg.eTag
  /\ dom.files
  /\ metadata.files = sortFiles(Listing(last.arg.req.url, last.arg.eTag), metadata.sort)
  /\ metadata.files # Listing(last.arg.req.url, last.arg.eTag)

----------------------------------------------------------------------------
(* selectStorage *)

Selectable(storages, o) == inStorages(storages, o) /\ storageOf(storages, o).available

\* C3: selectStorage(origin) with an origin that is not cached, or whose cached entry is
\* not available, leaves metadata.origin and metadata.current_path as they are and
\* sends no file poll.
C3_SelectUnavailableIsNoOp ==
  [][(last'.op = "selectStorage" /\ ~Selectable(metadata.storages, last'.arg))
       => (/\ metadata'.origin = metadata.origin
           /\ metadata'.current_path = metadata.current_path
           /\ filePolls' = filePolls
           /\ sent' = sent
           /\ "updateFiles" \notin last'.calls)]_vars

\* C3's case: a storage is selected, and selectStorage was called with another one
\* that is cached as not available
C3_Witness ==
  /\ last.op = "selectStorage"
  /\ inStorages(metadata.storages, last.arg)
  /\ ~storageOf(metadata.storages, last.arg).available
  /\ metadata.origin \in StorageTypes
  /\ metadata.origin # last.arg
  /\ sent < MaxPolls

----------------------------------------------------------------------------
(* The storage poller *)

\* the type of the first available entry of a storage list, Null if there is none
FirstAvailable(list) ==
  LET avail == {i \in 1..Len(list) : list[i].available}
  IN  IF avail = {} THEN Null ELSE list[CHOOSE i \in avail : \A j \in avail : i <= j].type

\* C4, as claimed: a storage response handled while no origin is selected selects the
\* first available entry of the returned list, and selects nothing when the list has
\* no available entry.
C4_SelectsFirstAvailableOfList ==
  [][(last'.op = "updateStorage" /\ metadata.origin \in {Null, False})
       => IF FirstAvailable(last'.arg) = Null
          THEN metadata'.origin \in {Null, False}
          ELSE metadata'.origin = FirstAvailable(last'.arg)]_vars

----------------------------------------------------------------------------
(* Failed file polls *)

----------------------------------------------------------------------------
(* The selected storage *)

\* the page as it is once load() has run, the first storage response has selected the
\* local storage and the listing of its forced poll is on the page; the run starts
\* here, with no request in flight
InitSelected ==
  /\ printerType = "fdm"
  /\ hist = [applied |-> "e1", failed |-> "no"]
  /\ LET shown == [m |-> metadata0, polls |-> EmptyBag,
                   dom |-> [files |-> TRUE, folders |-> {}, up |-> FALSE], calls |-> {}]
         list == <<StorageData("LOCAL", TRUE), StorageData("USB", TRUE)>>
         selected == updateStorageThen(shown, list)
         req == CHOOSE r \in BagToSet(selected.polls) : TRUE
         w == updateFilesThen([selected EXCEPT !.polls = EmptyBag, !.calls = {}],
                              req, "e1", Listing(req.url, "e1"))
     IN  /\ metadata = w.m
         /\ filePolls = w.polls
         /\ dom = w.dom
         /\ last = [op |-> "updateFiles", arg |-> [req |-> req, eTag |-> "e1"],
                    calls |-> w.calls]
  /\ storagePolls = 0
  /\ sent = 0
  /\ InitQueue
  /\ InitUpload

SpecSelected == InitSelected /\ [][NextStorage]_vars

OriginSet(m) == m.origin \notin {Null, False}

\* a storage list says that storage o is not available
ReportsUnavailable(list, o) ==
  \E i \in 1..Len(list) : list[i].type = o /\ ~list[i].available

\* C11: whenever metadata.origin is set, the storage it names is cached and cached as
\* available; and the handler of a storage response that reports the selected storage
\* as not available leaves the origin at the first available storage of the cache if
\* there is one, and cleared (false) if there is none.
C11_OriginSetIsAvailable ==
  /\ [](OriginSet(metadata) => Selectable(metadata.storages, metadata.origin))
  /\ [][(/\ last'.op = "updateStorage"
         /\ OriginSet(metadata)
         /\ ReportsUnavailable(last'.arg, metadata.origin))
        => (/\ metadata'.origin # metadata.origin
            /\ metadata'.origin = IF FirstAvailable(metadata'.storages) = Null THEN False
                                  ELSE FirstAvailable(metadata'.storages))]_vars

\* C11's case: a storage response said that the selected storage is gone, the handler
\* cleared the origin and selected the other storage, which it sends a forced poll for
C11_Witness ==
  /\ last.op = "updateStorage"
  /\ {"origin = false", "updateFiles"} \subseteq last.calls
  /\ ReportsUnavailable(last.arg, "LOCAL")
  /\ metadata.origin = "USB"
  /\ storageOf(metadata.storages, "USB").available
  /\ ~storageOf(metadata.storages, "LOCAL").available

----------------------------------------------------------------------------
(* Late responses *)

\* the folder the page is in, as updateFiles addresses it
CurrentUrl(m) == join(<<storageOf(m.storages, m.origin).name>> \o slice1(m.current_path))

Entries(files) == {files[i] : i \in 1..Len(files)}

\* C12, as claimed: when no file request is in flight any more (none has failed, a
\* storage is selected and a response has been applied), metadata.files holds a
\* listing of the folder that the current origin and current_path name, in one of
\* its versions, and not the listing of a folder that was left.
C12_QuiescentListingIsCurrent ==
  (/\ filePolls = EmptyBag
   /\ hist.failed = "no"
   /\ hist.applied # Null
   /\ OriginSet(metadata)
   /\ inStorages(metadata.storages, metadata.origin))
  => \E tag \in ETags :
       Entries(metadata.files) = Entries(Listing(CurrentUrl(metadata), tag))

----------------------------------------------------------------------------
(* Uploads in flight *)

\* C13, as claimed: at no time is more than one uploadRequest in flight, whenever the
\* change events of the file input arrive (also between the start of an upload and
\* the end of its file.arrayBuffer() read).
C13_AtMostOneUploadRequest == upload.requests <= 1

\* the user picks no file while a file is read or uploaded
ChangeWhenIdle ==
  /\ upload.reads = 0
  /\ upload.requests = 0
  /\ Change

NextUploadSerial ==
  \/ UploadInit
  \/ ChangeWhenIdle
  \/ ReadDone
  \/ ReadFailed
  \/ Progress
  \/ UploadDone
  \/ UploadFailed

\* the widget with one upload at a time
SpecUploadSerial == InitUploadPage /\ [][NextUploadSerial]_vars

\* C14, as claimed: isUploading is true as long as a request is in flight; the handler
\* of a request that settles, with success or with failure, leaves the widget in the
\* choose state with isUploading false and progress 0; init() called while a request
\* is in flight puts the widget in the uploading state with the progress reported
\* last; and a file picked when nothing is read or uploaded starts an upload.
C14_UploadReturnsToChoose ==
  /\ [](upload.requests > 0 => upload.isUploading)
  /\ [][last'.op \in {"uploadResolved", "uploadRejected"}
         => (/\ upload'.state = "choose"
             /\ ~upload'.isUploading
             /\ upload'.progress = 0)]_vars
  /\ [][(last'.op = "init" /\ upload.requests > 0)
         => (/\ upload'.isUploading
             /\ upload'.state = "uploading"
             /\ upload'.progress = upload.progress)]_vars
  /\ [][(last'.op = "onchange" /\ last'.arg > 0 /\ upload.reads = 0 /\ upload.requests = 0)
         => upload'.started = upload.started + 1]_vars

====
